---- MODULE Spec2Model ----
(***************************************************************************)
(* Model of main.go: a one-shot script that provisions a service account,  *)
(* a Pub/Sub topic, a key and two subscriptions, grants IAM roles by       *)
(* read-modify-write of a policy, and unwinds everything with defers.      *)
(*                                                                         *)
(* Two specifications:                                                     *)
(*   Spec        one run of main() against a provider whose calls may fail *)
(*   SpecPolicy  the pure policy-merge functions on bounded policies       *)
(***************************************************************************)
EXTENDS Integers, Sequences, FiniteSets, TLC

VARIABLES
    \* ---- the run of main() -------------------------------------------
    pc,               \* position in main()
    projectID,        \* jwt.ProjectID once the credential file is loaded
    env,              \* value of GOOGLE_APPLICATION_CREDENTIALS
    jwtPath,          \* the local jwtPath: the variable's value read at start
    fileContent,      \* what the temporary key file holds
    gcpClient,        \* identity of gcpClient ("nil" when construction failed)
    newGCPClient,     \* identity of newGCPClient
    iamService,       \* identity carried by iamService / its sub-services
    projectsService,  \* identity carried by projectsService
    pubsubService,    \* identity carried by pubsubService / topicsService
    newPubsubService, \* identity carried by newPubsubService
    newTopicsService, \* identity carried by newTopicsService
    newProjectsService, \* identity carried by newProjectsService
    serviceAccount,   \* *iam.ServiceAccount
    topic,            \* *pubsub.Topic
    key,              \* *iam.ServiceAccountKey
    decodedKey,       \* bytes decoded from the key
    file,             \* *os.File of the temporary file
    testSub,          \* *pubsub.Subscription of the first attempt
    testSub2,         \* *pubsub.Subscription of the second attempt
    defers,           \* stack of deferred calls, last one first to run
    panicking,        \* a run-time panic is unwinding the stack
    exited,           \* the process has ended
    exitCode,         \* its exit code
    logs,             \* messages written by log.Printf / log.Fatalf
    calls,            \* provider calls made, in order, with the calling identity
    cleanups,         \* deferred calls that were run, in order
    topicPolicy,      \* provider side: IAM policy of the topic
    projectPolicy,    \* provider side: IAM policy of the project
    \* ---- the policy-merge functions on their own ---------------------
    argPolicy,        \* policy handed to the function
    argEmail,         \* sa.Email
    argRole,          \* role argument
    outPolicy,        \* policy after the call
    applied           \* which function was applied: "none", "pubsub", "cloudres"

runVars == << pc, projectID, env, jwtPath, fileContent, gcpClient, newGCPClient, iamService,
              projectsService, pubsubService, newPubsubService, newTopicsService,
              newProjectsService, serviceAccount, topic, key, decodedKey, file,
              testSub, testSub2, defers, panicking, exited, exitCode, logs,
              calls, cleanups, topicPolicy, projectPolicy >>

policyVars == << argPolicy, argEmail, argRole, outPolicy, applied >>

vars == << runVars, policyVars >>

-----------------------------------------------------------------------------
(* Bounds of the policies explored by SpecPolicy.                          *)
MaxBindings == 2
MaxMembers == 2

-----------------------------------------------------------------------------
(* Constants of main.go.                                                   *)
cleanup == TRUE
testSubscriptionName == "test-sub"
testServiceAccountName == "test-sa"
roleResourcePrefix == "roles/"
projectResourcePrefix == "projects/"
pubsubRolePrefix == "pubsub."
topicPrefix == "topics/"
subscriptionPrefix == "subscriptions/"
saBindingPrefix == "serviceAccount:"

-----------------------------------------------------------------------------
(* Policies: a policy is the sequence of its bindings, a binding a record  *)
(* [Role, Members].  A *Binding is the index of the binding in the policy, *)
(* 0 for nil, so that a write through the pointer changes the policy.      *)

\* Mutant: the scan keeps going and returns the last binding with the role.
collapseBindings_Last(bindings, role) ==
    IF \E i \in 1..Len(bindings) : bindings[i].Role = roleResourcePrefix \o role
    THEN CHOOSE i \in 1..Len(bindings) :
            /\ bindings[i].Role = roleResourcePrefix \o role
            /\ \A j \in 1..Len(bindings) :
                  bindings[j].Role = roleResourcePrefix \o role => j <= i
    ELSE 0

collapseBindings(bindings, role) ==
    IF \E i \in 1..Len(bindings) : bindings[i].Role = roleResourcePrefix \o role
    THEN CHOOSE i \in 1..Len(bindings) :
            /\ bindings[i].Role = roleResourcePrefix \o role
            /\ \A j \in 1..(i - 1) : bindings[j].Role # roleResourcePrefix \o role
    ELSE 0

collapsePubsubBindings(bindings, role) ==
    IF \E i \in 1..Len(bindings) : bindings[i].Role = roleResourcePrefix \o role
    THEN CHOOSE i \in 1..Len(bindings) :
            /\ bindings[i].Role = roleResourcePrefix \o role
            /\ \A j \in 1..(i - 1) : bindings[j].Role # roleResourcePrefix \o role
    ELSE 0

\* Mutant: the new binding replaces the binding list instead of extending it.
addMemberToPubSubPolicy_Replace(policy, email, role) ==
    LET binding == collapsePubsubBindings(policy, role) IN
    IF binding # 0
    THEN [policy EXCEPT ![binding].Members = Append(@, saBindingPrefix \o email)]
    ELSE << [Members |-> << saBindingPrefix \o email >>,
             Role |-> roleResourcePrefix \o role] >>

addMemberToPubSubPolicy(policy, email, role) ==
    LET binding == collapsePubsubBindings(policy, role) IN
    IF binding # 0
    THEN [policy EXCEPT ![binding].Members = Append(@, saBindingPrefix \o email)]
    ELSE Append(policy, [Members |-> << saBindingPrefix \o email >>,
                         Role |-> roleResourcePrefix \o role])

addMemberToPolicy(policy, email, role) ==
    LET binding == collapseBindings(policy, role) IN
    IF binding # 0
    THEN [policy EXCEPT ![binding].Members = Append(@, saBindingPrefix \o email)]
    ELSE Append(policy, [Members |-> << saBindingPrefix \o email >>,
                         Role |-> roleResourcePrefix \o role])

-----------------------------------------------------------------------------
(* Values of the run.  A Go pointer is a record with a nil flag; an        *)
(* authenticated client or service is named by the identity it acts as,    *)
(* "nil" when its construction failed.                                     *)
OrigPath == "/path/to/full/access/jwt.json"
TmpPath == "/tmp/keyfile"
ProjectP1 == "p1"
SAEmail == testServiceAccountName \o "@p1.iam.gserviceaccount.com"
OwnerMember == "serviceAccount:owner@p1.iam.gserviceaccount.com"
OtherMember == "user:alice@example.com"
SubscriberRole == roleResourcePrefix \o pubsubRolePrefix \o "subscriber"

NilSA == [nil |-> TRUE, Name |-> "", Email |-> ""]
NilTopic == [nil |-> TRUE, Name |-> ""]
NilKey == [nil |-> TRUE, PrivateKeyData |-> ""]
NilFile == [nil |-> TRUE, name |-> ""]
NilSub == [nil |-> TRUE, Name |-> "", Topic |-> ""]

topicResourceName(project, topicName) ==
    projectResourcePrefix \o project \o "/" \o topicPrefix \o topicName

subscriptionResourceName(project, subscriptionName) ==
    projectResourcePrefix \o project \o "/" \o subscriptionPrefix \o subscriptionName

\* The roles main() asks for: "subscriber" on the topic (prefixed with
\* "pubsub." inside grantPermissionOnTopic) and "pubsub.subscriber" on the project.
topicRole == "subscriber"

\* Mutant: the project grant forgets the "pubsub." prefix.
projectRole_Unprefixed == "subscriber"

projectRole == pubsubRolePrefix \o "subscriber"

\* The member string an identity appears as in a policy.
MemberOf(id) == IF id = "sa" THEN saBindingPrefix \o SAEmail ELSE OwnerMember

\* The provider the README reports: creating a subscription is authorized
\* only for an identity that holds the project-wide subscriber role.
Authorized(id, policy) ==
    \E i \in 1..Len(policy) :
        /\ policy[i].Role = SubscriberRole
        /\ \E k \in 1..Len(policy[i].Members) : policy[i].Members[k] = MemberOf(id)

\* google.DefaultClient reads the credential file the environment variable
\* names at the time of the call.  The original file was parsed as JSON by
\* jwtFromFile but may still be rejected; the temporary file yields the
\* service account's identity only if it holds the decoded key.
DefaultClient(envv, content) ==
    IF envv = OrigPath THEN {"owner", "nil"}
    ELSE IF content = "sakey" THEN {"sa"} ELSE {"nil"}

\* Mutant: os.Setenv is skipped and the variable keeps its value.
Setenv_Skipped(old, value) == old

Setenv(old, value) == value

\* Mutant: deferred calls are queued first-in first-out.
PushDefer_Fifo(stack, d) == Append(stack, d)

\* defer: the call runs after every call deferred later.
PushDefer(stack, d) == << d >> \o stack

\* Mutant: the deletion is deferred whether or not the creation returned a
\* subscription.
DeferSubDelete_Always(sub) == cleanup

\* `if testSub != nil { if cleanup { defer deleteSubscription(...) } }`
DeferSubDelete(sub) == ~sub.nil /\ cleanup

\* Mutant: the check of the environment variable is missing.
EnvMissing_Never(path) == FALSE

\* `if jwtPath == ""`
EnvMissing(path) == path = ""

Call(op, target, id, ok, auth) ==
    [op |-> op, target |-> target, id |-> id, ok |-> ok, authorized |-> auth]

Deferred(fn, nilArg, name, svc) ==
    [fn |-> fn, nilArg |-> nilArg, name |-> name, svc |-> svc]

\* Policies the project may hold before the run; the service account's
\* name is new to the project.
InitialProjectPolicies ==
    { << >>,
      << [Role |-> "roles/owner", Members |-> << OwnerMember >>] >>,
      << [Role |-> "roles/owner", Members |-> << OwnerMember >>],
         [Role |-> SubscriberRole, Members |-> << OtherMember >>] >> }

-----------------------------------------------------------------------------
(* The run of main().                                                      *)

clientVars == << gcpClient, newGCPClient, iamService, projectsService,
                 pubsubService, newPubsubService, newTopicsService,
                 newProjectsService >>
resourceVars == << serviceAccount, topic, key, decodedKey, file, testSub, testSub2 >>
providerVars == << topicPolicy, projectPolicy >>
localVars == << projectID, env, jwtPath, fileContent >>
policyIdle ==
    /\ argPolicy = << >>
    /\ argEmail = ""
    /\ argRole = ""
    /\ outPolicy = << >>
    /\ applied = "none"

\* ioutil.ReadFile + json.Unmarshal on the credential file: no file has an
\* empty path.
jwtFromFile(filePath) ==
    IF filePath = "" THEN {"unreadable"} ELSE {"ok", "unreadable", "malformed"}

\* A nil pointer dereference: the run-time panic unwinds main(), running the
\* deferred calls, and the process then exits with code 2.
Panic ==
    /\ pc' = "unwind"
    /\ panicking' = TRUE

\* log.Fatalf: the message, then os.Exit(1); no deferred call runs.
Fatalf(msg) ==
    /\ logs' = Append(logs, msg)
    /\ exited' = TRUE
    /\ exitCode' = 1
    /\ pc' = "exited"

Init ==
    /\ pc = "getenv"
    /\ projectID = ""
    /\ env \in {"", OrigPath}
    /\ jwtPath = ""
    /\ fileContent = "absent"
    /\ gcpClient = "nil"
    /\ newGCPClient = "nil"
    /\ iamService = "nil"
    /\ projectsService = "nil"
    /\ pubsubService = "nil"
    /\ newPubsubService = "nil"
    /\ newTopicsService = "nil"
    /\ newProjectsService = "nil"
    /\ serviceAccount = NilSA
    /\ topic = NilTopic
    /\ key = NilKey
    /\ decodedKey = ""
    /\ file = NilFile
    /\ testSub = NilSub
    /\ testSub2 = NilSub
    /\ defers = << >>
    /\ panicking = FALSE
    /\ exited = FALSE
    /\ exitCode = 0
    /\ logs = << >>
    /\ calls = << >>
    /\ cleanups = << >>
    /\ topicPolicy = << >>
    /\ projectPolicy \in InitialProjectPolicies
    /\ policyIdle

\* main.go 244-247
Getenv ==
    /\ pc = "getenv"
    /\ jwtPath' = env
    /\ IF EnvMissing(env)
       THEN Fatalf("GOOGLE_APPLICATION_CREDENTIALS environment variable must be set")
       ELSE /\ pc' = "loadJWT"
            /\ UNCHANGED << logs, exited, exitCode >>
    /\ UNCHANGED << projectID, env, fileContent, clientVars, resourceVars,
                    providerVars, defers, panicking, calls, cleanups, policyVars >>

\* main.go 250-254
LoadJWT ==
    /\ pc = "loadJWT"
    /\ \E r \in jwtFromFile(jwtPath) :
          IF r # "ok"
          THEN /\ Fatalf("Failed to load JWT from file")
               /\ UNCHANGED projectID
          ELSE /\ projectID' = ProjectP1
               /\ pc' = "client1"
               /\ UNCHANGED << logs, exited, exitCode >>
    /\ UNCHANGED << env, jwtPath, fileContent, clientVars, resourceVars,
                    providerVars, defers, panicking, calls, cleanups, policyVars >>

\* main.go 258-274: the default client and the cloudres and iam services
\* built on it; New(nil) returns a nil service and an error.
Client1 ==
    /\ pc = "client1"
    /\ \E id \in DefaultClient(env, fileContent) :
          /\ gcpClient' = id
          /\ projectsService' = id
          /\ iamService' = id
          /\ logs' = IF id = "nil"
                     THEN logs \o << "Failed to get new Google Default Client",
                                     "Failed to create CloudRes Service",
                                     "Failed to create IAM Service" >>
                     ELSE logs
    /\ pc' = "createSA"
    /\ UNCHANGED << localVars, newGCPClient, pubsubService, newPubsubService,
                    newTopicsService, newProjectsService, resourceVars,
                    providerVars, defers, panicking, exited, exitCode, calls,
                    cleanups, policyVars >>

\* main.go 277-284 (createServiceAccount 90-101): a call through a nil
\* service dereferences it.
CreateSA ==
    /\ pc = "createSA"
    /\ IF iamService = "nil"
       THEN /\ Panic
            /\ UNCHANGED << serviceAccount, calls, logs, defers >>
       ELSE /\ \E ok \in BOOLEAN :
                  /\ calls' = Append(calls, Call("CreateServiceAccount",
                                  projectResourcePrefix \o projectID,
                                  iamService, ok, TRUE))
                  /\ serviceAccount' =
                        IF ok
                        THEN [nil |-> FALSE,
                              Name |-> projectResourcePrefix \o projectID
                                         \o "/serviceAccounts/" \o SAEmail,
                              Email |-> SAEmail]
                        ELSE NilSA
                  /\ logs' = IF ok THEN logs
                             ELSE Append(logs, "Failed to create service account")
            /\ defers' = IF cleanup
                         THEN PushDefer(defers,
                                 Deferred("deleteServiceAccount", serviceAccount'.nil,
                                          serviceAccount'.Name, iamService))
                         ELSE defers
            /\ pc' = "newPubsub"
            /\ UNCHANGED panicking
    /\ UNCHANGED << localVars, clientVars, topic, key, decodedKey, file, testSub,
                    testSub2, providerVars, exited, exitCode, cleanups, policyVars >>

\* main.go 287-291
NewPubsub ==
    /\ pc = "newPubsub"
    /\ pubsubService' = gcpClient
    /\ logs' = IF gcpClient = "nil"
               THEN Append(logs, "Failed to create PubSub Service") ELSE logs
    /\ pc' = "createTopic"
    /\ UNCHANGED << localVars, gcpClient, newGCPClient, iamService, projectsService,
                    newPubsubService, newTopicsService, newProjectsService,
                    resourceVars, providerVars, defers, panicking, exited,
                    exitCode, calls, cleanups, policyVars >>

\* main.go 294-301 (createTopic 64-68)
CreateTopic ==
    /\ pc = "createTopic"
    /\ IF pubsubService = "nil"
       THEN /\ Panic
            /\ UNCHANGED << topic, calls, logs, defers >>
       ELSE /\ \E ok \in BOOLEAN :
                  /\ calls' = Append(calls, Call("CreateTopic",
                                  topicResourceName(projectID, "test-topic"),
                                  pubsubService, ok, TRUE))
                  /\ topic' = IF ok
                              THEN [nil |-> FALSE,
                                    Name |-> topicResourceName(projectID, "test-topic")]
                              ELSE NilTopic
                  /\ logs' = IF ok THEN logs
                             ELSE Append(logs, "Failed to create topic")
            /\ defers' = IF cleanup
                         THEN PushDefer(defers,
                                 Deferred("deleteTopic", topic'.nil, topic'.Name,
                                          pubsubService))
                         ELSE defers
            /\ pc' = "grantTopic"
            /\ UNCHANGED panicking
    /\ UNCHANGED << localVars, clientVars, serviceAccount, key, decodedKey, file,
                    testSub, testSub2, providerVars, exited, exitCode, cleanups,
                    policyVars >>

\* main.go 304-307 (grantPermissionsOnTopic 197-205, grantPermissionOnTopic
\* 186-195): topic.Name is read before the first call, sa.Email inside
\* addMemberToPubSubPolicy after GetIamPolicy has returned.
GrantTopic ==
    /\ pc = "grantTopic"
    /\ IF topic.nil
       THEN /\ Panic
            /\ UNCHANGED << calls, logs, topicPolicy >>
       ELSE \E getOk \in BOOLEAN, setOk \in BOOLEAN :
               LET get == Call("GetTopicIamPolicy", topic.Name, pubsubService,
                               getOk, TRUE)
                   set == Call("SetTopicIamPolicy", topic.Name, pubsubService,
                               setOk, TRUE)
               IN
               IF ~getOk
               THEN /\ calls' = Append(calls, get)
                    /\ logs' = Append(logs, "Failed to grant permissions on topic")
                    /\ pc' = "createKey"
                    /\ UNCHANGED << topicPolicy, panicking >>
               ELSE IF serviceAccount.nil
               THEN /\ calls' = Append(calls, get)
                    /\ Panic
                    /\ UNCHANGED << logs, topicPolicy >>
               ELSE /\ calls' = calls \o << get, set >>
                    /\ topicPolicy' =
                          IF setOk
                          THEN addMemberToPubSubPolicy(topicPolicy,
                                  serviceAccount.Email, pubsubRolePrefix \o topicRole)
                          ELSE topicPolicy
                    /\ logs' = IF setOk THEN logs
                               ELSE Append(logs, "Failed to grant permissions on topic")
                    /\ pc' = "createKey"
                    /\ UNCHANGED panicking
    /\ UNCHANGED << localVars, clientVars, resourceVars, projectPolicy, defers,
                    exited, exitCode, cleanups, policyVars >>

\* What the provider may put in ServiceAccountKey.PrivateKeyData: the
\* base64 encoding of the key file, or bytes that are not base64.
KeyData == {"c2FrZXk=", "%%%"}

\* base64.StdEncoding.DecodeString
DecodeString(data) ==
    IF data = "c2FrZXk=" THEN [bytes |-> "sakey", err |-> FALSE]
    ELSE [bytes |-> "", err |-> TRUE]

\* main.go 310-313 (createServiceAccountKey 108-110): sa.Name is read first.
CreateKey ==
    /\ pc = "createKey"
    /\ IF serviceAccount.nil
       THEN /\ Panic
            /\ UNCHANGED << calls, logs, key >>
       ELSE /\ \E ok \in BOOLEAN, data \in KeyData :
                  /\ calls' = Append(calls, Call("CreateServiceAccountKey",
                                  serviceAccount.Name, iamService, ok, TRUE))
                  /\ key' = IF ok THEN [nil |-> FALSE, PrivateKeyData |-> data]
                            ELSE NilKey
                  /\ logs' = IF ok THEN logs
                             ELSE Append(logs, "Failed to create service account key")
            /\ pc' = "decodeKey"
            /\ UNCHANGED panicking
    /\ UNCHANGED << localVars, clientVars, serviceAccount, topic, decodedKey, file,
                    testSub, testSub2, providerVars, defers, exited, exitCode,
                    cleanups, policyVars >>

\* main.go 315-318: key.PrivateKeyData dereferences key.
DecodeKey ==
    /\ pc = "decodeKey"
    /\ IF key.nil
       THEN /\ Panic
            /\ UNCHANGED << decodedKey, logs >>
       ELSE /\ decodedKey' = DecodeString(key.PrivateKeyData).bytes
            /\ logs' = IF DecodeString(key.PrivateKeyData).err
                       THEN Append(logs, "Failed to decode service account key")
                       ELSE logs
            /\ pc' = "tempFile"
            /\ UNCHANGED panicking
    /\ UNCHANGED << localVars, clientVars, serviceAccount, topic, key, file,
                    testSub, testSub2, providerVars, defers, exited, exitCode,
                    calls, cleanups, policyVars >>

\* main.go 321-325: the argument file.Name() of the deferred os.Remove is
\* evaluated at the defer statement, on a nil *os.File when TempFile failed.
TempFile ==
    /\ pc = "tempFile"
    /\ \E ok \in BOOLEAN :
          IF ok
          THEN /\ file' = [nil |-> FALSE, name |-> TmpPath]
               /\ fileContent' = ""
               /\ defers' = PushDefer(defers, Deferred("Remove", FALSE, TmpPath, "nil"))
               /\ pc' = "writeFile"
               /\ UNCHANGED << logs, panicking >>
          ELSE /\ file' = NilFile
               /\ logs' = Append(logs, "Failed to create temp file")
               /\ Panic
               /\ UNCHANGED << fileContent, defers >>
    /\ UNCHANGED << projectID, env, jwtPath, clientVars, serviceAccount, topic, key,
                    decodedKey, testSub, testSub2, providerVars, exited, exitCode,
                    calls, cleanups, policyVars >>

\* main.go 326-329
WriteFile ==
    /\ pc = "writeFile"
    /\ \E ok \in BOOLEAN :
          /\ fileContent' = IF ok THEN decodedKey ELSE fileContent
          /\ logs' = IF ok THEN logs ELSE Append(logs, "Failed to write key to file")
    /\ pc' = "setenv"
    /\ UNCHANGED << projectID, env, jwtPath, clientVars, resourceVars, providerVars,
                    defers, panicking, exited, exitCode, calls, cleanups,
                    policyVars >>

\* main.go 332-335: the variable now names the temporary file, and nothing
\* sets it back.
SetenvStep ==
    /\ pc = "setenv"
    /\ env' = Setenv(env, file.name)
    /\ pc' = "client2"
    /\ UNCHANGED << projectID, jwtPath, fileContent, clientVars, resourceVars,
                    providerVars, defers, panicking, exited, exitCode, logs, calls,
                    cleanups, policyVars >>

\* main.go 338-348: newTopicsService is built on pubsubService, the service
\* of the first client, not on newPubsubService.
Client2 ==
    /\ pc = "client2"
    /\ \E id \in DefaultClient(env, fileContent) :
          /\ newGCPClient' = id
          /\ newPubsubService' = id
          /\ logs' = IF id = "nil"
                     THEN logs \o << "Failed to get new Google Default Client",
                                     "Failed to create PubSub Service" >>
                     ELSE logs
    /\ newTopicsService' = pubsubService
    /\ pc' = "permsTopic"
    /\ UNCHANGED << localVars, gcpClient, iamService, projectsService, pubsubService,
                    newProjectsService, resourceVars, providerVars, defers,
                    panicking, exited, exitCode, calls, cleanups, policyVars >>

\* main.go 351-361 (getPermissionsOnTopic 234-238); the "Allowed:" listing
\* is output only.
PermsTopic ==
    /\ pc = "permsTopic"
    /\ IF topic.nil \/ newTopicsService = "nil"
       THEN /\ Panic
            /\ UNCHANGED << calls, logs >>
       ELSE /\ \E ok \in BOOLEAN :
                  /\ calls' = Append(calls, Call("TestTopicIamPermissions",
                                  topic.Name, newTopicsService, ok, TRUE))
                  /\ logs' = IF ok THEN logs
                             ELSE Append(logs, "Failed to get permissions on topic")
            /\ pc' = "createSub1"
            /\ UNCHANGED panicking
    /\ UNCHANGED << localVars, clientVars, resourceVars, providerVars, defers,
                    exited, exitCode, cleanups, policyVars >>

\* createSubscription (main.go 79-83): the request the provider sees.  The
\* provider reports success or failure; `authorized` records what the
\* provider of the README would decide.
createSubscription(svc, subscriptionName, ok) ==
    Call("CreateSubscription", subscriptionResourceName(projectID, subscriptionName),
         svc, ok, Authorized(svc, projectPolicy))

Subscription(subscriptionName) ==
    [nil |-> FALSE, Name |-> subscriptionResourceName(projectID, subscriptionName),
     Topic |-> topic.Name]

\* main.go 364-377: pubsubService.Projects dereferences the service.
CreateSub1 ==
    /\ pc = "createSub1"
    /\ IF topic.nil \/ newPubsubService = "nil"
       THEN /\ Panic
            /\ UNCHANGED << calls, logs, testSub, defers >>
       ELSE /\ \E ok \in BOOLEAN :
                  /\ calls' = Append(calls,
                        createSubscription(newPubsubService, testSubscriptionName, ok))
                  /\ testSub' = IF ok THEN Subscription(testSubscriptionName)
                                ELSE NilSub
                  /\ logs' = Append(logs,
                        IF ok THEN "SUCCESS using topic role!"
                        ELSE "Failed to create subscription with only a topic role")
            /\ defers' = IF DeferSubDelete(testSub')
                         THEN PushDefer(defers,
                                 Deferred("deleteSubscription", FALSE,
                                    subscriptionResourceName(projectID,
                                       testSubscriptionName),
                                    newPubsubService))
                         ELSE defers
            /\ pc' = "client3"
            /\ UNCHANGED panicking
    /\ UNCHANGED << localVars, clientVars, serviceAccount, topic, key, decodedKey,
                    file, testSub2, providerVars, exited, exitCode, cleanups,
                    policyVars >>

\* main.go 381-389: a third default client, from whatever file the
\* variable names now; newPubsubService keeps the client it was built on.
Client3 ==
    /\ pc = "client3"
    /\ \E id \in DefaultClient(env, fileContent) :
          /\ newGCPClient' = id
          /\ newProjectsService' = id
          /\ logs' = IF id = "nil"
                     THEN logs \o << "Failed to get new Google Default Client",
                                     "Failed to create CloudRes Service" >>
                     ELSE logs
    /\ pc' = "grantProject"
    /\ UNCHANGED << localVars, gcpClient, iamService, projectsService, pubsubService,
                    newPubsubService, newTopicsService, resourceVars, providerVars,
                    defers, panicking, exited, exitCode, calls, cleanups,
                    policyVars >>

\* main.go 392-397 (grantProjectPermissions 176-184, grantProjectPermission
\* 164-174): issued through projectsService, the service of the first client.
GrantProject ==
    /\ pc = "grantProject"
    /\ IF projectsService = "nil"
       THEN /\ Panic
            /\ UNCHANGED << calls, logs, projectPolicy >>
       ELSE \E getOk \in BOOLEAN, setOk \in BOOLEAN :
               LET get == Call("GetProjectIamPolicy", projectID, projectsService,
                               getOk, TRUE)
                   set == Call("SetProjectIamPolicy", projectID, projectsService,
                               setOk, TRUE)
               IN
               IF ~getOk
               THEN /\ calls' = Append(calls, get)
                    /\ logs' = Append(logs, "Failed to grant global permission")
                    /\ pc' = "permsProject"
                    /\ UNCHANGED << projectPolicy, panicking >>
               ELSE IF serviceAccount.nil
               THEN /\ calls' = Append(calls, get)
                    /\ Panic
                    /\ UNCHANGED << logs, projectPolicy >>
               ELSE /\ calls' = calls \o << get, set >>
                    /\ projectPolicy' =
                          IF setOk
                          THEN addMemberToPolicy(projectPolicy, serviceAccount.Email,
                                                 projectRole)
                          ELSE projectPolicy
                    /\ logs' = IF setOk THEN logs
                               ELSE Append(logs, "Failed to grant global permission")
                    /\ pc' = "permsProject"
                    /\ UNCHANGED panicking
    /\ UNCHANGED << localVars, clientVars, resourceVars, topicPolicy, defers,
                    exited, exitCode, cleanups, policyVars >>

\* main.go 400-408 (getPermissions 228-232)
PermsProject ==
    /\ pc = "permsProject"
    /\ IF newProjectsService = "nil"
       THEN /\ Panic
            /\ UNCHANGED << calls, logs >>
       ELSE /\ \E ok \in BOOLEAN :
                  /\ calls' = Append(calls, Call("TestProjectIamPermissions",
                                  projectResourcePrefix \o projectID,
                                  newProjectsService, ok, TRUE))
                  /\ logs' = IF ok THEN logs
                             ELSE Append(logs, "Failed to get project permissions")
            /\ pc' = "createSub2"
            /\ UNCHANGED panicking
    /\ UNCHANGED << localVars, clientVars, resourceVars, providerVars, defers,
                    exited, exitCode, cleanups, policyVars >>

\* main.go 411-422, then main() returns and its deferred calls run.
CreateSub2 ==
    /\ pc = "createSub2"
    /\ IF topic.nil \/ newPubsubService = "nil"
       THEN /\ Panic
            /\ UNCHANGED << calls, logs, testSub2, defers >>
       ELSE /\ \E ok \in BOOLEAN :
                  /\ calls' = Append(calls,
                        createSubscription(newPubsubService,
                                           testSubscriptionName \o "2", ok))
                  /\ testSub2' = IF ok THEN Subscription(testSubscriptionName \o "2")
                                 ELSE NilSub
                  /\ logs' = Append(logs,
                        IF ok THEN "SUCCESS using global role!"
                        ELSE "Failed to create subscription, even with global role")
            /\ defers' = IF DeferSubDelete(testSub2')
                         THEN PushDefer(defers,
                                 Deferred("deleteSubscription", FALSE,
                                    subscriptionResourceName(projectID,
                                       testSubscriptionName \o "2"),
                                    newPubsubService))
                         ELSE defers
            /\ pc' = "unwind"
            /\ UNCHANGED panicking
    /\ UNCHANGED << localVars, clientVars, serviceAccount, topic, key, decodedKey,
                    file, testSub, providerVars, exited, exitCode, cleanups,
                    policyVars >>

\* One deferred call, the one deferred last: deleteServiceAccount (103-106)
\* and deleteTopic (70-73) dereference the pointer they were given when the
\* call was deferred; deleteSubscription (85-88) and os.Remove take names.
\* The errors the deletions return are dropped.
RunDefer ==
    /\ pc = "unwind"
    /\ defers # << >>
    /\ LET d == Head(defers) IN
       /\ defers' = Tail(defers)
       /\ cleanups' = Append(cleanups, d)
       /\ IF d.fn = "Remove"
          THEN /\ fileContent' = "absent"
               /\ UNCHANGED << calls, panicking >>
          ELSE IF d.nilArg
          THEN /\ panicking' = TRUE
               /\ UNCHANGED << calls, fileContent >>
          ELSE /\ \E ok \in BOOLEAN :
                     calls' = Append(calls,
                        Call(IF d.fn = "deleteServiceAccount" THEN "DeleteServiceAccount"
                             ELSE IF d.fn = "deleteTopic" THEN "DeleteTopic"
                             ELSE "DeleteSubscription",
                             d.name, d.svc, ok, TRUE))
               /\ UNCHANGED << panicking, fileContent >>
    /\ UNCHANGED << pc, projectID, env, jwtPath, clientVars, resourceVars,
                    providerVars, exited, exitCode, logs, policyVars >>

\* The end of the process: exit code 0 after a normal return, 2 after a
\* panic.
Exit ==
    /\ pc = "unwind"
    /\ defers = << >>
    /\ exited' = TRUE
    /\ exitCode' = IF panicking THEN 2 ELSE 0
    /\ pc' = "exited"
    /\ UNCHANGED << localVars, clientVars, resourceVars, providerVars, defers,
                    panicking, logs, calls, cleanups, policyVars >>

Next ==
    \/ Getenv
    \/ LoadJWT
    \/ Client1
    \/ CreateSA
    \/ NewPubsub
    \/ CreateTopic
    \/ GrantTopic
    \/ CreateKey
    \/ DecodeKey
    \/ TempFile
    \/ WriteFile
    \/ SetenvStep
    \/ Client2
    \/ PermsTopic
    \/ CreateSub1
    \/ Client3
    \/ GrantProject
    \/ PermsProject
    \/ CreateSub2
    \/ RunDefer
    \/ Exit

Spec == Init /\ [][Next]_vars

-----------------------------------------------------------------------------
(* The policy-merge functions applied to every policy within the bounds.   *)

BoundedSeq(S, n) == UNION { [1..k -> S] : k \in 0..n }

PolicyRoles == { SubscriberRole, roleResourcePrefix \o "subscriber", "pubsub.subscriber" }
PolicyMembers == { saBindingPrefix \o SAEmail, OtherMember }
RoleArgs == { "pubsub.subscriber", "subscriber" }
Emails == { SAEmail, "other-sa@p1.iam.gserviceaccount.com" }

Bindings == [Role : PolicyRoles, Members : BoundedSeq(PolicyMembers, MaxMembers)]
Policies == BoundedSeq(Bindings, MaxBindings)

runIdle ==
    /\ pc = "idle"
    /\ projectID = ""
    /\ env = OrigPath
    /\ jwtPath = ""
    /\ fileContent = "absent"
    /\ gcpClient = "nil"
    /\ newGCPClient = "nil"
    /\ iamService = "nil"
    /\ projectsService = "nil"
    /\ pubsubService = "nil"
    /\ newPubsubService = "nil"
    /\ newTopicsService = "nil"
    /\ newProjectsService = "nil"
    /\ serviceAccount = NilSA
    /\ topic = NilTopic
    /\ key = NilKey
    /\ decodedKey = ""
    /\ file = NilFile
    /\ testSub = NilSub
    /\ testSub2 = NilSub
    /\ defers = << >>
    /\ panicking = FALSE
    /\ exited = FALSE
    /\ exitCode = 0
    /\ logs = << >>
    /\ calls = << >>
    /\ cleanups = << >>
    /\ topicPolicy = << >>
    /\ projectPolicy = << >>

InitPolicy ==
    /\ runIdle
    /\ argPolicy \in Policies
    /\ argEmail \in Emails
    /\ argRole \in RoleArgs
    /\ outPolicy = argPolicy
    /\ applied = "none"

\* addMemberToPubSubPolicy(policy, sa, role), main.go 132-146
ApplyPubSub ==
    /\ applied = "none"
    /\ outPolicy' = addMemberToPubSubPolicy(argPolicy, argEmail, argRole)
    /\ applied' = "pubsub"
    /\ UNCHANGED << argPolicy, argEmail, argRole, runVars >>

\* addMemberToPolicy(policy, sa, role), main.go 148-162
ApplyCloudRes ==
    /\ applied = "none"
    /\ outPolicy' = addMemberToPolicy(argPolicy, argEmail, argRole)
    /\ applied' = "cloudres"
    /\ UNCHANGED << argPolicy, argEmail, argRole, runVars >>

NextPolicy ==
    \/ ApplyPubSub
    \/ ApplyCloudRes

SpecPolicy == InitPolicy /\ [][NextPolicy]_vars

-----------------------------------------------------------------------------
(* Properties.                                                             *)

HasCall(op, target) ==
    \E i \in 1..Len(calls) : calls[i].op = op /\ calls[i].target = target

HasOkCall(op, target) ==
    \E i \in 1..Len(calls) :
        calls[i].op = op /\ calls[i].target = target /\ calls[i].ok

Sub1Name == subscriptionResourceName(ProjectP1, testSubscriptionName)
Sub2Name == subscriptionResourceName(ProjectP1, testSubscriptionName \o "2")

\* The variable was unset or empty when the process started.
EnvMissingAtStart == IF pc = "getenv" THEN env = "" ELSE jwtPath = ""

\* Every provider call other than the two subscription creations succeeded,
\* the local steps too, and main() returned.
OtherStepsSucceeded ==
    /\ exited
    /\ exitCode = 0
    /\ \A i \in 1..Len(calls) : calls[i].op # "CreateSubscription" => calls[i].ok
    /\ \A i \in 1..Len(logs) :
          logs[i] \in { "SUCCESS using topic role!", "SUCCESS using global role!",
                        "Failed to create subscription with only a topic role",
                        "Failed to create subscription, even with global role" }

\* The provider answered the subscription creations as the provider of the
\* README does: success exactly for an identity with the project-wide role.
ProviderIsMock ==
    \A i \in 1..Len(calls) :
        calls[i].op = "CreateSubscription" => calls[i].ok = calls[i].authorized

\* C1: against a provider that authorizes a subscription creation only for
\* an identity holding the project-wide subscriber role, in a run where every
\* other step succeeds, the first subscription creation fails and the second,
\* made after the project-scoped grant, succeeds.
C1_TopicRoleFailsProjectRoleSucceeds ==
    (OtherStepsSucceeded /\ ProviderIsMock) =>
        /\ testSub.nil
        /\ ~testSub2.nil
        /\ HasCall("CreateSubscription", Sub1Name)
        /\ HasOkCall("CreateSubscription", Sub2Name)

C1_Witness ==
    /\ OtherStepsSucceeded
    /\ ProviderIsMock
    /\ testSub.nil
    /\ ~testSub2.nil
    /\ Len(projectPolicy) = 2

\* C2: when the credential-path variable is unset or empty at start, the run
\* aborts at once with exit code 1: no provider call is made, no cleanup is
\* scheduled or run, and nothing but the fatal message is logged.
C2_MissingEnvAborts ==
    EnvMissingAtStart =>
        /\ calls = << >>
        /\ defers = << >>
        /\ cleanups = << >>
        /\ pc \in {"getenv", "exited"}
        /\ pc = "exited" =>
              /\ exited
              /\ exitCode = 1
              /\ Len(logs) = 1

C2_Witness ==
    /\ EnvMissingAtStart
    /\ exited
    /\ exitCode = 1
    /\ calls = << >>

\* C3 (as claimed, for the runs that load the credential file and build the
\* first client): whichever of the later steps fail (service account, topic,
\* key, temp file, grants, permission checks, subscription creations,
\* deletions), the process exits with code 0.
C3_ExitZeroUnlessEnvMissing ==
    (exited /\ ~EnvMissingAtStart /\ projectID # "" /\ gcpClient # "nil") =>
        exitCode = 0

\* The order of the cleanup actions as the claim C4 gives it.
ClaimedRank(d) ==
    IF d.fn = "deleteSubscription" THEN 1
    ELSE IF d.fn = "deleteTopic" THEN 2
    ELSE IF d.fn = "deleteServiceAccount" THEN 3
    ELSE 4

\* The order in which main() defers them, reversed.
DeferRank(d) ==
    IF d.fn = "deleteSubscription" /\ d.name = Sub2Name THEN 1
    ELSE IF d.fn = "deleteSubscription" THEN 2
    ELSE IF d.fn = "Remove" THEN 3
    ELSE IF d.fn = "deleteTopic" THEN 4
    ELSE 5

\* C4 (as claimed): the cleanup actions run in the order subscriptions,
\* topic, service account, temporary key file, the key file last.
C4_CleanupOrderAsClaimed ==
    \A i \in 1..Len(cleanups), j \in 1..Len(cleanups) :
        i < j => ClaimedRank(cleanups[i]) <= ClaimedRank(cleanups[j])

\* C4 (amended): the cleanup actions that were scheduled run in the reverse
\* of the order of scheduling: second subscription, first subscription,
\* temporary key file, topic, service account last; none is left over when
\* the process ends after main() returned or panicked, and a run that
\* returns normally runs all of the last three.
C4_CleanupOrderReverseOfDefer ==
    /\ \A i \in 1..Len(cleanups), j \in 1..Len(cleanups) :
          i < j => DeferRank(cleanups[i]) < DeferRank(cleanups[j])
    /\ (exited /\ exitCode # 1) => defers = << >>
    /\ (exited /\ exitCode = 0) =>
          /\ Len(cleanups) >= 3
          /\ cleanups[Len(cleanups) - 2].fn = "Remove"
          /\ cleanups[Len(cleanups) - 1].fn = "deleteTopic"
          /\ cleanups[Len(cleanups)].fn = "deleteServiceAccount"

C4_Witness ==
    /\ exited
    /\ Len(cleanups) = 5
    /\ cleanups[1].name = Sub2Name
    /\ cleanups[3].fn = "Remove"
    /\ cleanups[5].fn = "deleteServiceAccount"
    /\ \E i \in 1..Len(logs) : logs[i] = "Failed to get permissions on topic"

\* The provider calls of the sequence from the topic creation to the second
\* subscription creation.
LaterSteps ==
    { "CreateTopic", "GetTopicIamPolicy", "CreateServiceAccountKey",
      "TestTopicIamPermissions", "GetProjectIamPolicy",
      "TestProjectIamPermissions" }

\* C5 (as claimed): once the service-account creation has been made, every
\* remaining step of the sequence is attempted whatever fails, up to and
\* including the second subscription creation.
C5_NoStepFailureStopsTheSequence ==
    (exited /\ \E i \in 1..Len(calls) : calls[i].op = "CreateServiceAccount") =>
        /\ \A op \in LaterSteps : \E i \in 1..Len(calls) : calls[i].op = op
        /\ HasCall("CreateSubscription", Sub1Name)
        /\ HasCall("CreateSubscription", Sub2Name)

NoBinding(policy, role) ==
    \A i \in 1..Len(policy) : policy[i].Role # roleResourcePrefix \o role

FirstBinding(policy, role) ==
    CHOOSE i \in 1..Len(policy) :
        /\ policy[i].Role = roleResourcePrefix \o role
        /\ \A j \in 1..(i - 1) : policy[j].Role # roleResourcePrefix \o role

\* C6: given a policy with no binding for the prefixed role, after either
\* merge function the policy has exactly one binding for that role, whose
\* members are exactly the one new member "serviceAccount:" + email, and
\* the bindings that were there are all still there, unchanged.
C6_NewBindingWithOneMember ==
    (applied # "none" /\ NoBinding(argPolicy, argRole)) =>
        /\ Cardinality({ i \in 1..Len(outPolicy) :
                           outPolicy[i].Role = roleResourcePrefix \o argRole }) = 1
        /\ \A i \in 1..Len(outPolicy) :
              outPolicy[i].Role = roleResourcePrefix \o argRole =>
                 outPolicy[i].Members = << saBindingPrefix \o argEmail >>
        /\ Len(outPolicy) = Len(argPolicy) + 1
        /\ \A i \in 1..Len(argPolicy) : outPolicy[i] = argPolicy[i]

C6_Witness ==
    /\ applied = "cloudres"
    /\ NoBinding(argPolicy, argRole)
    /\ Len(argPolicy) = MaxBindings
    /\ Len(outPolicy) = MaxBindings + 1

\* C7: given a policy that already has a binding for the prefixed role,
\* after either merge function the number of bindings is unchanged and the
\* first binding with that role has its previous members, in their order,
\* followed by the new member.
C7_AppendToFirstBinding ==
    (applied # "none" /\ ~NoBinding(argPolicy, argRole)) =>
        /\ Len(outPolicy) = Len(argPolicy)
        /\ outPolicy[FirstBinding(argPolicy, argRole)].Members =
              Append(argPolicy[FirstBinding(argPolicy, argRole)].Members,
                     saBindingPrefix \o argEmail)

C7_Witness ==
    /\ applied = "pubsub"
    /\ Len(argPolicy) = 2
    /\ argPolicy[1].Role = roleResourcePrefix \o argRole
    /\ argPolicy[2].Role = roleResourcePrefix \o argRole
    /\ Len(argPolicy[1].Members) = 2
    /\ argPolicy[1].Members[1] # argPolicy[1].Members[2]
    /\ Len(outPolicy[1].Members) = 3
    /\ outPolicy[2] = argPolicy[2]

\* C8 (as claimed): the permission check on the topic is issued under the
\* newly minted service-account identity.
C8_TopicCheckUnderNewIdentity ==
    \A i \in 1..Len(calls) :
        calls[i].op = "TestTopicIamPermissions" => calls[i].id = "sa"

\* C9 (as claimed): the client constructed after the first subscription
\* attempt carries the original full-access credential, and the project
\* permission check runs under that identity.
C9_ThirdClientIsOriginal ==
    /\ newProjectsService # "nil" => newProjectsService = "owner"
    /\ \A i \in 1..Len(calls) :
          calls[i].op = "TestProjectIamPermissions" => calls[i].id = "owner"

\* C9 (amended): the variable still names the service-account key file
\* when that client is constructed, so the client carries the
\* service-account identity, and the project permission check runs under it.
C9_ThirdClientIsServiceAccount ==
    /\ newProjectsService # "nil" => (newProjectsService = "sa" /\ env = TmpPath)
    /\ \A i \in 1..Len(calls) :
          calls[i].op = "TestProjectIamPermissions" => calls[i].id = "sa"

C9_Witness ==
    /\ newProjectsService = "sa"
    /\ \E i \in 1..Len(calls) :
          calls[i].op = "TestProjectIamPermissions" /\ calls[i].id = "sa"
    /\ gcpClient = "owner"

\* C10: a subscription is deleted during cleanup if and only if its creation
\* returned a subscription in this run; a subscription whose creation failed
\* is never the target of a delete call.
C10_DeleteIffCreated ==
    /\ \A n \in {Sub1Name, Sub2Name} :
          HasCall("DeleteSubscription", n) => HasOkCall("CreateSubscription", n)
    /\ exited =>
          /\ HasCall("DeleteSubscription", Sub1Name) <=> ~testSub.nil
          /\ HasCall("DeleteSubscription", Sub2Name) <=> ~testSub2.nil

C10_Witness ==
    /\ exited
    /\ ~testSub.nil
    /\ testSub2.nil
    /\ HasCall("DeleteSubscription", Sub1Name)
    /\ HasCall("CreateSubscription", Sub2Name)
    /\ ~HasCall("DeleteSubscription", Sub2Name)

====
